---- MODULE Spec2Model ----
(***************************************************************************)
(* Startup coordination of the router (RouterInitializer in                *)
(* router_module.ts): the APP_INITIALIZER hook that starts or skips the    *)
(* initial navigation, the afterPreactivation interception that pauses the *)
(* first navigation, and the APP_BOOTSTRAP_LISTENER hook that releases it. *)
(* The Router, the rxjs Subject and the host application are modelled at   *)
(* the interface the initializer uses.                                     *)
(***************************************************************************)
EXTENDS Naturals, Sequences, FiniteSets

\* ---- bounds ----
MaxNavs == 3
MaxComponents == 2
MaxListenerCalls == 2
MaxLayers == 5
MaxTables == 3
MaxEvents == 2

\* undefined, and the objects the hooks are handed (all of them truthy)
Unset == <<>>
\* preactivation of navigation n builds a RouterStateSnapshot object of its own
Snapshot(n) == <<"RouterStateSnapshot", n>>
ComponentRefs == {<<"ComponentRef", i>> : i \in 1..MaxComponents}
\* componentFactory.componentType of the component behind a reference
ComponentType(c) == <<"Type", c[2]>>

VARIABLES
  locationInitialized, \* LOCATION_INITIALIZED: "absent" | "pending" | "resolved" | "rejected"
  opts,                \* ROUTER_CONFIGURATION: [initialNavigation: "undefined" | "true" | "false"]
  hostWaits,           \* TRUE: the host bootstraps components only after the initializer settled
  appInit,             \* the promise appInitializer() returns
  initSnapshot,        \* RouterInitializer.initSnapshot
  subject,             \* RouterInitializer.resultOfPreactivationDone
  hook,                \* router.hooks.afterPreactivation: "default" | "interception"
  calls,               \* calls the initializer made on the router and the preloader
  components,          \* ApplicationRef.components
  componentTypes,      \* ApplicationRef.componentTypes
  rootComponentType,   \* the router's root component type
  navs,                \* the router's navigations, in the order they started
  firstIntercepted,    \* the navigation the interception was first invoked for (0: none yet)
  listenerTick,        \* flips at every bootstrapListener invocation
  lastListenerArg,     \* the component reference of the latest invocation
  rootNotified,        \* bootstrapListener has been invoked with the root component
  listenerEffects,     \* what the latest run of bootstrapListener for the root did, in order
  \* -- composition of the module tree --
  layers,              \* the injector layers composed so far, each with its parent
  \* -- provisioning of the router --
  options,             \* ROUTER_CONFIGURATION as handed to the factories
  baseHref,            \* APP_BASE_HREF, if any
  routesToken,         \* the values of the multi-provider ROUTES, in registration order
  locationStrategy,    \* what provideLocationStrategy returned
  router,              \* what setupRouter returned
  emitted,             \* the events the router emitted on router.events
  deliveries,          \* the deliveries of those events to subscribers, in order
  console              \* the console groups written

vars == <<locationInitialized, opts, hostWaits, appInit, initSnapshot, subject, hook,
          calls, components, componentTypes, rootComponentType, navs, firstIntercepted,
          listenerTick, lastListenerArg, rootNotified, listenerEffects>>

guardVars == <<layers>>
provisionVars == <<options, baseHref, routesToken, locationStrategy, router, emitted,
                   deliveries, console>>

\* ---- the router's navigations ----
NewNav == [phase |-> "started", snapshot |-> Unset, ret |-> "none", value |-> Unset,
           received |-> 0]

NavIds == 1..Len(navs)

\* router.initialNavigation(): the router starts a navigation
RouterInitialNavigation(ns) == Append(ns, NewNav)

\* ---- rxjs Subject (resultOfPreactivationDone) and observables ----
NewSubject == [isStopped |-> FALSE, observers |-> {}]

\* the navigation's subscriber is handed a value: it goes on to commit with it
NavReceives(nav, v) ==
  [nav EXCEPT !.phase = "released",
              !.value = v,
              !.received = @ + 1]

\* Subject.next(v): hands v to the current observers; nothing once stopped
SubjectNext(st, v) ==
  IF st.subject.isStopped THEN st
  ELSE [st EXCEPT !.navs = [n \in DOMAIN st.navs |->
                              IF n \in st.subject.observers
                              THEN NavReceives(st.navs[n], v) ELSE st.navs[n]]]

\* Subject.complete(): stops the subject and drops its observers; a
\* navigation that has been handed no value ends without one
SubjectComplete(st) ==
  IF st.subject.isStopped THEN st
  ELSE [subject |-> [isStopped |-> TRUE, observers |-> {}],
        navs |-> [n \in DOMAIN st.navs |->
                    IF n \in st.subject.observers /\ st.navs[n].phase = "waiting"
                    THEN [st.navs[n] EXCEPT !.phase = "empty"] ELSE st.navs[n]]]

\* the router subscribes navigation n to the Subject the hook returned
SubscribeToSubject(st, n, s) ==
  IF st.subject.isStopped
  THEN [st EXCEPT !.navs[n] = [@ EXCEPT !.phase = "empty", !.snapshot = s,
                                        !.ret = "subject"]]
  ELSE [subject |-> [st.subject EXCEPT !.observers = @ \cup {n}],
        navs |-> [st.navs EXCEPT ![n] = [@ EXCEPT !.phase = "waiting", !.snapshot = s,
                                                  !.ret = "subject"]]]

\* the router subscribes navigation n to of(v): v is handed over at once
SubscribeToOf(ns, n, s, v) ==
  [ns EXCEPT ![n] = [@ EXCEPT !.phase = "released", !.snapshot = s, !.ret = "of",
                              !.value = v]]

\* the router's own afterPreactivation hook: the snapshot passes through
DefaultHook(n, s) ==
  /\ navs' = [navs EXCEPT ![n] = [@ EXCEPT !.phase = "released", !.snapshot = s,
                                           !.ret = "default", !.value = s]]
  /\ UNCHANGED <<initSnapshot, appInit, subject>>

\* resolve(true) on the promise `res`
Resolve(p) == IF p = "pending" THEN "resolved" ELSE p

\* ---- RouterInitializer ----

\* variant: the first invocation forgets resolve(true)
InterceptionForgetsResolve(n, s) ==
  IF initSnapshot = Unset
  THEN /\ initSnapshot' = s
       /\ appInit' = appInit
       /\ LET st == SubscribeToSubject([subject |-> subject, navs |-> navs], n, s)
          IN  subject' = st.subject /\ navs' = st.navs
  ELSE /\ navs' = SubscribeToOf(navs, n, s, s)
       /\ UNCHANGED <<initSnapshot, appInit, subject>>

\* variant: the first invocation returns of(s) too, delaying nothing
InterceptionNeverDelays(n, s) ==
  /\ initSnapshot' = IF initSnapshot = Unset THEN s ELSE initSnapshot
  /\ appInit' = IF initSnapshot = Unset THEN Resolve(appInit) ELSE appInit
  /\ navs' = SubscribeToOf(navs, n, s, s)
  /\ UNCHANGED subject

\* variant: the test of initSnapshot is missing, every invocation captures
InterceptionAlwaysCaptures(n, s) ==
  /\ initSnapshot' = s
  /\ appInit' = Resolve(appInit)
  /\ LET st == SubscribeToSubject([subject |-> subject, navs |-> navs], n, s)
     IN  subject' = st.subject /\ navs' = st.navs

\* variant: later invocations return resultOfPreactivationDone as well
InterceptionDelaysAll(n, s) ==
  /\ initSnapshot' = IF initSnapshot = Unset THEN s ELSE initSnapshot
  /\ appInit' = IF initSnapshot = Unset THEN Resolve(appInit) ELSE appInit
  /\ LET st == SubscribeToSubject([subject |-> subject, navs |-> navs], n, s)
     IN  subject' = st.subject /\ navs' = st.navs

\* the closure assigned to router.hooks.afterPreactivation, invoked for
\* navigation n with snapshot s, and the router's subscription to its result
Interception(n, s) ==
  IF initSnapshot = Unset
  THEN /\ initSnapshot' = s
       /\ appInit' = Resolve(appInit)
       /\ LET st == SubscribeToSubject([subject |-> subject, navs |-> navs], n, s)
          IN  subject' = st.subject /\ navs' = st.navs
  ELSE /\ navs' = SubscribeToOf(navs, n, s, s)
       /\ UNCHANGED <<initSnapshot, appInit, subject>>

\* appInitializer(): looks up LOCATION_INITIALIZED and chains the callback
AppInitializer ==
  /\ appInit = "notcalled"
  /\ appInit' = "awaitingLocation"
  /\ UNCHANGED <<locationInitialized, opts, hostWaits, initSnapshot, subject, hook, calls,
                 components, componentTypes, rootComponentType, navs, firstIntercepted,
                 listenerTick, lastListenerArg, rootNotified>>
  /\ UNCHANGED <<listenerEffects, guardVars, provisionVars>>

\* variant: the callback returns an already resolved promise
InitializerBodySettlesAtOnce ==
  /\ appInit' = "resolved"
  /\ IF opts.initialNavigation = "false"
     THEN /\ calls' = [calls EXCEPT !.setUpLocationChangeListener = @ + 1]
          /\ UNCHANGED <<hook, navs>>
     ELSE /\ hook' = "interception"
          /\ calls' = [calls EXCEPT !.initialNavigation = @ + 1]
          /\ navs' = RouterInitialNavigation(navs)

\* variant: the else is missing, the interception is installed and the
\* initial navigation started whatever the option says
InitializerBodyAlwaysNavigates ==
  /\ appInit' = "pending"
  /\ hook' = "interception"
  /\ calls' = [calls EXCEPT !.setUpLocationChangeListener =
                               IF opts.initialNavigation = "false" THEN @ + 1 ELSE @,
                             !.initialNavigation = @ + 1]
  /\ navs' = RouterInitialNavigation(navs)

\* variant: the interception is installed before the option is looked at
InitializerBodyInstallsAlways ==
  /\ appInit' = "pending"
  /\ hook' = "interception"
  /\ IF opts.initialNavigation = "false"
     THEN /\ calls' = [calls EXCEPT !.setUpLocationChangeListener = @ + 1]
          /\ UNCHANGED navs
     ELSE /\ calls' = [calls EXCEPT !.initialNavigation = @ + 1]
          /\ navs' = RouterInitialNavigation(navs)

\* the body of the callback of p.then(...)
InitializerBody ==
  /\ appInit' = "pending"
  /\ IF opts.initialNavigation = "false"
     THEN /\ calls' = [calls EXCEPT !.setUpLocationChangeListener = @ + 1]
          /\ UNCHANGED <<hook, navs>>
     ELSE /\ hook' = "interception"
          /\ calls' = [calls EXCEPT !.initialNavigation = @ + 1]
          /\ navs' = RouterInitialNavigation(navs)

\* variant: the callback is also chained as the rejection handler, p.then(f, f)
AppInitializerThenOnFailure ==
  /\ appInit = "awaitingLocation"
  /\ locationInitialized \in {"absent", "resolved", "rejected"}
  /\ InitializerBody
  /\ UNCHANGED <<locationInitialized, opts, hostWaits, initSnapshot, subject, components,
                 componentTypes, rootComponentType, firstIntercepted, listenerTick,
                 lastListenerArg, rootNotified>>
  /\ UNCHANGED <<listenerEffects, guardVars, provisionVars>>

\* variant: the body runs at once instead of in p.then(...)
AppInitializerThenWithoutWaiting ==
  /\ appInit = "awaitingLocation"
  /\ InitializerBody
  /\ UNCHANGED <<locationInitialized, opts, hostWaits, initSnapshot, subject, components,
                 componentTypes, rootComponentType, firstIntercepted, listenerTick,
                 lastListenerArg, rootNotified>>
  /\ UNCHANGED <<listenerEffects, guardVars, provisionVars>>

\* the callback runs once LOCATION_INITIALIZED (or the default promise) resolved
AppInitializerThen ==
  /\ appInit = "awaitingLocation"
  /\ locationInitialized \in {"absent", "resolved"}
  /\ InitializerBody
  /\ UNCHANGED <<locationInitialized, opts, hostWaits, initSnapshot, subject, components,
                 componentTypes, rootComponentType, firstIntercepted, listenerTick,
                 lastListenerArg, rootNotified>>
  /\ UNCHANGED <<listenerEffects, guardVars, provisionVars>>

\* LOCATION_INITIALIZED rejected: the callback never runs, the rejection is passed on
AppInitializerRejected ==
  /\ appInit = "awaitingLocation"
  /\ locationInitialized = "rejected"
  /\ appInit' = "rejected"
  /\ UNCHANGED <<locationInitialized, opts, hostWaits, initSnapshot, subject, hook, calls,
                 components, componentTypes, rootComponentType, navs, firstIntercepted,
                 listenerTick, lastListenerArg, rootNotified>>
  /\ UNCHANGED <<listenerEffects, guardVars, provisionVars>>

\* variant: complete() is called before next()
BootstrapListenerCompletesFirst(bootstrappedComponentRef, ref) ==
  IF ref.components = <<>> \/ bootstrappedComponentRef # ref.components[1]
  THEN UNCHANGED <<calls, rootComponentType, subject, navs, initSnapshot, listenerEffects>>
  ELSE /\ calls' = [calls EXCEPT !.setUpPreloading = @ + 1,
                                 !.resetRootComponentType = @ + 1]
       /\ rootComponentType' = ref.componentTypes[1]
       /\ LET st == SubjectNext(SubjectComplete([subject |-> subject, navs |-> navs]),
                                initSnapshot)
          IN  subject' = st.subject /\ navs' = st.navs
       /\ listenerEffects' = <<"setUpPreloading", "resetRootComponentType", "complete", "next">>
       /\ UNCHANGED initSnapshot

\* variant: complete() is missing
BootstrapListenerNeverCompletes(bootstrappedComponentRef, ref) ==
  IF ref.components = <<>> \/ bootstrappedComponentRef # ref.components[1]
  THEN UNCHANGED <<calls, rootComponentType, subject, navs, initSnapshot, listenerEffects>>
  ELSE /\ calls' = [calls EXCEPT !.setUpPreloading = @ + 1,
                                 !.resetRootComponentType = @ + 1]
       /\ rootComponentType' = ref.componentTypes[1]
       /\ LET st == SubjectNext([subject |-> subject, navs |-> navs], initSnapshot)
          IN  subject' = st.subject /\ navs' = st.navs
       /\ listenerEffects' = <<"setUpPreloading", "resetRootComponentType", "next">>
       /\ UNCHANGED initSnapshot

\* variant: the component reference is not compared with components[0]
BootstrapListenerAnyComponent(bootstrappedComponentRef, ref) ==
  IF ref.components = <<>>
  THEN UNCHANGED <<calls, rootComponentType, subject, navs, initSnapshot, listenerEffects>>
  ELSE /\ calls' = [calls EXCEPT !.setUpPreloading = @ + 1,
                                 !.resetRootComponentType = @ + 1]
       /\ rootComponentType' = ref.componentTypes[1]
       /\ LET st == SubjectComplete(SubjectNext([subject |-> subject, navs |-> navs],
                                                initSnapshot))
          IN  subject' = st.subject /\ navs' = st.navs
       /\ listenerEffects' = <<"setUpPreloading", "resetRootComponentType", "next", "complete">>
       /\ UNCHANGED initSnapshot

\* variant: the subject is resolved first, preloading and the reset of the
\* root component type come after
BootstrapListenerReleasesFirst(bootstrappedComponentRef, ref) ==
  IF ref.components = <<>> \/ bootstrappedComponentRef # ref.components[1]
  THEN UNCHANGED <<calls, rootComponentType, subject, navs, initSnapshot, listenerEffects>>
  ELSE /\ LET st == SubjectComplete(SubjectNext([subject |-> subject, navs |-> navs],
                                                initSnapshot))
          IN  subject' = st.subject /\ navs' = st.navs
       /\ calls' = [calls EXCEPT !.setUpPreloading = @ + 1,
                                 !.resetRootComponentType = @ + 1]
       /\ rootComponentType' = ref.componentTypes[1]
       /\ listenerEffects' = <<"next", "complete", "setUpPreloading", "resetRootComponentType">>
       /\ UNCHANGED initSnapshot

\* bootstrapListener(bootstrappedComponentRef), ref being the ApplicationRef
BootstrapListener(bootstrappedComponentRef, ref) ==
  IF ref.components = <<>> \/ bootstrappedComponentRef # ref.components[1]
  THEN UNCHANGED <<calls, rootComponentType, subject, navs, initSnapshot, listenerEffects>>
  ELSE /\ calls' = [calls EXCEPT !.setUpPreloading = @ + 1,
                                 !.resetRootComponentType = @ + 1]
       /\ rootComponentType' = ref.componentTypes[1]
       /\ LET st == SubjectComplete(SubjectNext([subject |-> subject, navs |-> navs],
                                                initSnapshot))
          IN  subject' = st.subject /\ navs' = st.navs
       /\ listenerEffects' = <<"setUpPreloading", "resetRootComponentType", "next", "complete">>
       /\ UNCHANGED initSnapshot

\* ---- environment: the location subsystem, the host and the router ----
LocationReady(ok) ==
  /\ locationInitialized = "pending"
  /\ locationInitialized' = IF ok THEN "resolved" ELSE "rejected"
  /\ UNCHANGED <<opts, hostWaits, appInit, initSnapshot, subject, hook, calls, components,
                 componentTypes, rootComponentType, navs, firstIntercepted,
                 listenerTick, lastListenerArg, rootNotified>>
  /\ UNCHANGED <<listenerEffects, guardVars, provisionVars>>

HostMayBootstrap == hostWaits => appInit = "resolved"

\* the host attaches a component and notifies the bootstrap listeners with it
HostBootstrap(c) ==
  /\ HostMayBootstrap
  /\ \A i \in DOMAIN components : components[i] # c
  /\ components' = Append(components, c)
  /\ componentTypes' = Append(componentTypes, ComponentType(c))
  /\ listenerTick' = ~listenerTick
  /\ lastListenerArg' = c
  /\ rootNotified' = (rootNotified \/ c = components'[1])
  /\ BootstrapListener(c, [components |-> components', componentTypes |-> componentTypes'])
  /\ UNCHANGED <<locationInitialized, opts, hostWaits, appInit, hook, firstIntercepted>>
  /\ UNCHANGED <<guardVars, provisionVars>>

\* the listener is invoked again, with any component reference
BootstrapListenerCall(c) ==
  /\ HostMayBootstrap
  /\ calls.setUpPreloading < MaxListenerCalls
  /\ listenerTick' = ~listenerTick
  /\ lastListenerArg' = c
  /\ rootNotified' = (rootNotified \/ (components # <<>> /\ c = components[1]))
  /\ BootstrapListener(c, [components |-> components, componentTypes |-> componentTypes])
  /\ UNCHANGED <<locationInitialized, opts, hostWaits, appInit, hook, components,
                 componentTypes, firstIntercepted>>
  /\ UNCHANGED <<guardVars, provisionVars>>

InitializerRan == appInit \in {"pending", "resolved"}

\* a navigation other than the initial one starts (router.navigate, location change)
Navigate ==
  /\ Len(navs) + (IF InitializerRan \/ opts.initialNavigation = "false" THEN 0 ELSE 1)
       < MaxNavs
  /\ navs' = Append(navs, NewNav)
  /\ UNCHANGED <<locationInitialized, opts, hostWaits, appInit, initSnapshot, subject, hook,
                 calls, components, componentTypes, rootComponentType, firstIntercepted,
                 listenerTick, lastListenerArg, rootNotified>>
  /\ UNCHANGED <<listenerEffects, guardVars, provisionVars>>

\* navigation n finished preactivation: the router invokes the hook with its snapshot
AfterPreactivation(n) ==
  /\ n \in NavIds
  /\ navs[n].phase = "started"
  /\ IF hook = "interception"
     THEN /\ firstIntercepted' = IF firstIntercepted = 0 THEN n ELSE firstIntercepted
          /\ Interception(n, Snapshot(n))
     ELSE /\ DefaultHook(n, Snapshot(n))
          /\ UNCHANGED firstIntercepted
  /\ UNCHANGED <<locationInitialized, opts, hostWaits, hook, calls, components,
                 componentTypes, rootComponentType, listenerTick, lastListenerArg, rootNotified>>
  /\ UNCHANGED <<listenerEffects, guardVars, provisionVars>>

\* nothing composed
GuardIdle == layers = <<>>

\* nothing provisioned
ProvisionIdle ==
  /\ options = Unset
  /\ baseHref = Unset
  /\ routesToken = <<>>
  /\ locationStrategy = Unset
  /\ router = Unset
  /\ emitted = <<>>
  /\ deliveries = <<>>
  /\ console = <<>>

Init ==
  /\ locationInitialized \in {"absent", "pending"}
  /\ opts \in [initialNavigation : {"undefined", "true", "false"}]
  /\ hostWaits \in BOOLEAN
  /\ appInit = "notcalled"
  /\ initSnapshot = Unset
  /\ subject = NewSubject
  /\ hook = "default"
  /\ calls = [setUpLocationChangeListener |-> 0, initialNavigation |-> 0,
              setUpPreloading |-> 0, resetRootComponentType |-> 0]
  /\ components = <<>>
  /\ componentTypes = <<>>
  /\ rootComponentType = Unset
  /\ navs = <<>>
  /\ firstIntercepted = 0
  /\ listenerTick = FALSE
  /\ lastListenerArg = Unset
  /\ rootNotified = FALSE
  /\ listenerEffects = <<>>
  /\ GuardIdle
  /\ ProvisionIdle

Next ==
  \/ AppInitializer
  \/ AppInitializerThen
  \/ AppInitializerRejected
  \/ \E ok \in BOOLEAN : LocationReady(ok)
  \/ \E c \in ComponentRefs : HostBootstrap(c)
  \/ \E c \in ComponentRefs : BootstrapListenerCall(c)
  \/ Navigate
  \/ \E n \in 1..MaxNavs : AfterPreactivation(n)

Spec == Init /\ [][Next]_vars

\* the host goes on to attach the root component once it may
FairSpec == Spec /\ WF_vars(\E c \in ComponentRefs : HostBootstrap(c))

\* ---- composition of the module tree: forRoot, forChild and the root guard ----

\* the startup coordinator before the host has called anything
StartupIdle ==
  /\ locationInitialized = "absent"
  /\ opts = [initialNavigation |-> "undefined"]
  /\ hostWaits = TRUE
  /\ appInit = "notcalled"
  /\ initSnapshot = Unset
  /\ subject = NewSubject
  /\ hook = "default"
  /\ calls = [setUpLocationChangeListener |-> 0, initialNavigation |-> 0,
              setUpPreloading |-> 0, resetRootComponentType |-> 0]
  /\ components = <<>>
  /\ componentTypes = <<>>
  /\ rootComponentType = Unset
  /\ navs = <<>>
  /\ firstIntercepted = 0
  /\ listenerTick = FALSE
  /\ lastListenerArg = Unset
  /\ rootNotified = FALSE
  /\ listenerEffects = <<>>

\* what RouterModule.forRoot and RouterModule.forChild put into a layer
ForRoot == [providesRouter |-> TRUE, providesGuard |-> TRUE]
ForChild == [providesRouter |-> FALSE, providesGuard |-> FALSE]

\* deps [Router, new Optional(), new SkipSelf()] looked up for a layer whose
\* parent is layer i: the Router of the nearest layer from i upwards, or null
RECURSIVE AncestorRouter(_, _)
AncestorRouter(ls, i) ==
  IF i = 0 THEN Unset
  ELSE IF ls[i].providesRouter THEN <<"Router", i>>
  ELSE AncestorRouter(ls, ls[i].parent)

\* variant: the throw is missing
ProvideForRootGuardNeverThrows(r) == "guarded"

\* provideForRootGuard(router): throws if handed a Router
ProvideForRootGuard(r) == IF r # Unset THEN "error" ELSE "guarded"

\* a module with RouterModule.forRoot(...) or RouterModule.forChild(...) is
\* composed into a new layer under `parent` (0: the application's root layer
\* has no parent); a guard that throws aborts the composition of the layer
ComposeLayer(parent, kind) ==
  /\ Len(layers) < MaxLayers
  /\ IF layers = <<>> THEN parent = 0
     ELSE parent \in DOMAIN layers /\ layers[parent].composed
  /\ LET reg == IF kind = "forRoot" THEN ForRoot ELSE ForChild
         guard == IF reg.providesGuard
                  THEN ProvideForRootGuard(AncestorRouter(layers, parent))
                  ELSE "none"
     IN  layers' = Append(layers, [parent |-> parent, kind |-> kind, guard |-> guard,
                                   composed |-> guard # "error",
                                   providesRouter |-> reg.providesRouter /\ guard # "error"])
  /\ UNCHANGED <<vars, provisionVars>>

GuardInit == StartupIdle /\ GuardIdle /\ ProvisionIdle

GuardNext ==
  \E parent \in 0..MaxLayers, kind \in {"forRoot", "forChild"} : ComposeLayer(parent, kind)

GuardSpec == GuardInit /\ [][GuardNext]_guardVars

\* ---- provisioning: location strategy, route tables, the router factory ----

\* an optional boolean of ExtraOptions, and its truthiness
TriState == {"undefined", "true", "false"}
Truthy(v) == v = "true"

\* ROUTER_CONFIGURATION as a factory may be handed it: absent, or a record
OptionValues == {Unset} \cup [useHash : TriState, enableTracing : TriState]
BaseHrefs == {Unset, <<"/">>, <<"/app/">>}
RouteTables == {<<>>, <<"a">>, <<"b", "c">>}
EventNames == {"NavigationStart", "NavigationEnd"}

\* the default of the parameter: options = {}
OrEmpty(o) == IF o = Unset THEN [useHash |-> "undefined", enableTracing |-> "undefined"]
              ELSE o

\* variant: the option is tested for presence, not for truth
ProvideLocationStrategyOnPresence(platformLocationStrategy, bh, o) ==
  IF OrEmpty(o).useHash # "undefined"
  THEN [kind |-> "HashLocationStrategy", platformLocation |-> platformLocationStrategy,
        baseHref |-> bh]
  ELSE [kind |-> "PathLocationStrategy", platformLocation |-> platformLocationStrategy,
        baseHref |-> bh]

\* provideLocationStrategy(platformLocationStrategy, baseHref, options = {})
ProvideLocationStrategy(platformLocationStrategy, bh, o) ==
  IF Truthy(OrEmpty(o).useHash)
  THEN [kind |-> "HashLocationStrategy", platformLocation |-> platformLocationStrategy,
        baseHref |-> bh]
  ELSE [kind |-> "PathLocationStrategy", platformLocation |-> platformLocationStrategy,
        baseHref |-> bh]

\* provideRoutes(routes): one more value of the multi-provider ROUTES
ProvideRoutes(token, routes) == Append(token, routes)

\* flatten(config): the tables one after the other
RECURSIVE Flatten(_)
Flatten(config) == IF config = <<>> THEN <<>> ELSE Head(config) \o Flatten(Tail(config))

\* variant: only the first table is handed to the Router
SetupRouterFirstTableOnly(config, o) ==
  [config |-> IF config = <<>> THEN <<>> ELSE Head(config),
   subscribers |-> IF Truthy(OrEmpty(o).enableTracing) THEN <<"tracing">> ELSE <<>>]

\* variant: the tracing subscription is made whatever the option says
SetupRouterAlwaysTraces(config, o) ==
  [config |-> Flatten(config), subscribers |-> <<"tracing">>]

\* setupRouter(..., config, opts = {}): the Router with the flattened route
\* table and, with enableTracing, the tracing subscription on r.events
SetupRouter(config, o) ==
  [config |-> Flatten(config),
   subscribers |-> IF Truthy(OrEmpty(o).enableTracing) THEN <<"tracing">> ELSE <<>>]

\* e.toString()
EventToString(e) == <<"toString", e.name, e.id>>

\* the tracing subscriber: one console group per event
TraceEvent(e) == [group |-> <<"Router Event: ", e.name>>, lines |-> <<EventToString(e), e>>]

\* r.events hands e to its subscribers in the order they subscribed
RECURSIVE Deliver(_, _, _)
Deliver(subs, e, out) ==
  IF subs = <<>> THEN out
  ELSE Deliver(Tail(subs), e,
               [deliveries |-> Append(out.deliveries, [to |-> Head(subs), event |-> e]),
                console |-> IF Head(subs) = "tracing"
                            THEN Append(out.console, TraceEvent(e)) ELSE out.console])

ProvideRoutesStep(routes) ==
  /\ router = Unset
  /\ Len(routesToken) < MaxTables
  /\ routesToken' = ProvideRoutes(routesToken, routes)
  /\ UNCHANGED <<options, baseHref, locationStrategy, router, emitted, deliveries, console>>
  /\ UNCHANGED <<vars, guardVars>>

ProvideLocationStrategyStep ==
  /\ locationStrategy = Unset
  /\ locationStrategy' = ProvideLocationStrategy("PlatformLocation", baseHref, options)
  /\ UNCHANGED <<options, baseHref, routesToken, router, emitted, deliveries, console>>
  /\ UNCHANGED <<vars, guardVars>>

SetupRouterStep ==
  /\ router = Unset
  /\ router' = SetupRouter(routesToken, options)
  /\ UNCHANGED <<options, baseHref, routesToken, locationStrategy, emitted, deliveries,
                 console>>
  /\ UNCHANGED <<vars, guardVars>>

\* application code subscribes to router.events
SubscribeApp ==
  /\ router # Unset
  /\ \A i \in DOMAIN router.subscribers : router.subscribers[i] # "app"
  /\ router' = [router EXCEPT !.subscribers = Append(@, "app")]
  /\ UNCHANGED <<options, baseHref, routesToken, locationStrategy, emitted, deliveries,
                 console>>
  /\ UNCHANGED <<vars, guardVars>>

\* the router emits an event
Emit(name) ==
  /\ router # Unset
  /\ Len(emitted) < MaxEvents
  /\ LET e == [name |-> name, id |-> Len(emitted) + 1]
         out == Deliver(router.subscribers, e, [deliveries |-> deliveries, console |-> console])
     IN  /\ emitted' = Append(emitted, e)
         /\ deliveries' = out.deliveries
         /\ console' = out.console
  /\ UNCHANGED <<options, baseHref, routesToken, locationStrategy, router>>
  /\ UNCHANGED <<vars, guardVars>>

ProvisionInit ==
  /\ StartupIdle
  /\ GuardIdle
  /\ options \in OptionValues
  /\ baseHref \in BaseHrefs
  /\ routesToken = <<>>
  /\ locationStrategy = Unset
  /\ router = Unset
  /\ emitted = <<>>
  /\ deliveries = <<>>
  /\ console = <<>>

ProvisionNext ==
  \/ \E routes \in RouteTables : ProvideRoutesStep(routes)
  \/ ProvideLocationStrategyStep
  \/ SetupRouterStep
  \/ SubscribeApp
  \/ \E name \in EventNames : Emit(name)

ProvisionSpec == ProvisionInit /\ [][ProvisionNext]_provisionVars

\* ---- properties ----

\* the navigation the interception was first invoked for
FirstNav == navs[firstIntercepted]

\* C1: with initialNavigation === false and the location ready, the promise
\* appInitializer returned is settled as soon as the callback has run
C1_SkipSettlesImmediately ==
  (opts.initialNavigation = "false" /\ locationInitialized \in {"absent", "resolved"}
     /\ appInit \notin {"notcalled", "awaitingLocation"})
    => appInit = "resolved"

\* C2: with initialNavigation other than false, the promise appInitializer
\* returned is pending from router.initialNavigation() until the first
\* invocation of the interception; it is resolved in the very step of that
\* invocation, which captures initSnapshot, and in no other step
C2_SettledByFirstInterception ==
  /\ [](calls.initialNavigation > 0 /\ firstIntercepted = 0 => appInit = "pending")
  /\ [](opts.initialNavigation # "false" /\ firstIntercepted # 0 => appInit = "resolved")
  /\ [][(appInit # "resolved" /\ appInit' = "resolved")
          => /\ appInit = "pending"
             /\ firstIntercepted = 0 /\ firstIntercepted' # 0
             /\ initSnapshot = Unset /\ initSnapshot' = Snapshot(firstIntercepted')]_vars

C2_Witness ==
  /\ opts.initialNavigation = "undefined"
  /\ firstIntercepted # 0
  /\ appInit = "resolved"
  /\ ~rootNotified

\* C3: as long as bootstrapListener has not run for the root component, the
\* navigation the interception held is still waiting; it is never released
\* before
C3_HeldUntilRootBootstrapped ==
  firstIntercepted # 0 =>
    /\ FirstNav.phase # "started"
    /\ ~rootNotified => FirstNav.phase = "waiting"
    /\ FirstNav.phase = "released" => rootNotified /\ calls.resetRootComponentType > 0

C3_Witness ==
  /\ firstIntercepted # 0
  /\ FirstNav.phase = "waiting"
  /\ lastListenerArg # Unset
  /\ ~rootNotified
  /\ \E n \in NavIds : n # firstIntercepted /\ navs[n].phase = "released"

\* C4: a navigation held by the first interception is eventually released,
\* once, with the snapshot captured into initSnapshot, which is its own
C4_HeldNavigationReleased ==
  (firstIntercepted # 0 /\ FirstNav.phase = "waiting")
    ~> (/\ firstIntercepted # 0
        /\ FirstNav.phase = "released"
        /\ FirstNav.received = 1
        /\ FirstNav.value = initSnapshot
        /\ initSnapshot = Snapshot(firstIntercepted))

C4_Witness ==
  /\ opts.initialNavigation = "undefined"
  /\ locationInitialized = "resolved"
  /\ firstIntercepted # 0
  /\ FirstNav.phase = "released"
  /\ FirstNav.value = initSnapshot

\* C5: initSnapshot is unset until the first invocation of the interception,
\* is that invocation's snapshot from then on, and once set never changes
C5_InitSnapshotSetOnce ==
  /\ [](firstIntercepted = 0 => initSnapshot = Unset)
  /\ [](firstIntercepted # 0 => initSnapshot = Snapshot(firstIntercepted))
  /\ [][initSnapshot # Unset => initSnapshot' = initSnapshot]_vars

C5_Witness ==
  /\ firstIntercepted # 0
  /\ initSnapshot = Snapshot(firstIntercepted)
  /\ rootNotified
  /\ Cardinality({n \in NavIds : navs[n].ret = "of"}) >= 2

\* C6: an invocation of the interception after the first hands the
\* navigation its own snapshot at once, whether or not the first navigation
\* is still held, and leaves the promise, the subject and initSnapshot alone
C6_LaterNavigationsPassThrough ==
  [][\A n \in NavIds :
       (hook = "interception" /\ firstIntercepted # 0
          /\ navs[n].phase = "started" /\ navs'[n].phase # "started")
       => /\ navs'[n].phase = "released"
          /\ navs'[n].ret = "of"
          /\ navs'[n].value = Snapshot(n)
          /\ navs'[n].received = 0
          /\ n \notin subject'.observers
          /\ \A m \in NavIds \ {n} : navs'[m] = navs[m]
          /\ UNCHANGED <<appInit, subject, initSnapshot>>]_vars

C6_Witness ==
  /\ firstIntercepted # 0
  /\ FirstNav.phase = "waiting"
  /\ \E n \in NavIds : navs[n].ret = "of" /\ navs[n].value = Snapshot(n)

\* C7: resultOfPreactivationDone hands over a value at most once: no
\* navigation is handed a second one, however often bootstrapListener runs,
\* and once stopped the subject has no observers left
C7_ResolvedAtMostOnce ==
  /\ \A n \in NavIds : navs[n].received <= 1
  /\ \A n \in NavIds : (navs[n].received = 1) => (n = firstIntercepted)
  /\ subject.isStopped => subject.observers = {}

C7_Witness ==
  /\ calls.setUpPreloading >= 2
  /\ firstIntercepted # 0
  /\ FirstNav.received = 1

\* C8: with a host that bootstraps only after the initializer settled,
\* whenever resultOfPreactivationDone has been resolved initSnapshot is set
C8_CaptureBeforeRelease ==
  (hostWaits /\ subject.isStopped) => initSnapshot # Unset

C8_Witness ==
  /\ hostWaits
  /\ subject.isStopped
  /\ initSnapshot # Unset
  /\ FirstNav.phase = "released"

\* C9: bootstrapListener invoked with a component reference other than
\* components[0] changes nothing: no preloading, no reset of the root
\* component type, nothing handed over or completed, initSnapshot as it was
C9_NonRootIsNoOp ==
  [][(listenerTick' # listenerTick
        /\ (components' = <<>> \/ lastListenerArg' # components'[1]))
     => UNCHANGED <<calls, rootComponentType, subject, initSnapshot, navs>>]_vars

C9_Witness ==
  /\ Len(components) = 2
  /\ lastListenerArg = components[2]
  /\ calls.setUpPreloading = 1
  /\ rootComponentType = ComponentType(components[1])

\* C10: with initialNavigation === false the initializer calls
\* setUpLocationChangeListener() once, never initialNavigation(), and leaves
\* router.hooks.afterPreactivation as it was
C10_SkipOnlyListens ==
  opts.initialNavigation = "false" =>
    /\ calls.initialNavigation = 0
    /\ hook = "default"
    /\ calls.setUpLocationChangeListener = IF InitializerRan THEN 1 ELSE 0

C10_Witness ==
  /\ opts.initialNavigation = "false"
  /\ calls.setUpLocationChangeListener = 1
  /\ \E n \in NavIds : navs[n].ret = "default"

\* no call on the router has been made and the interception is not installed
NoRouterAction ==
  /\ calls.initialNavigation = 0
  /\ calls.setUpLocationChangeListener = 0
  /\ hook = "default"

\* C11: if LOCATION_INITIALIZED is rejected, the promise appInitializer
\* returned can only be rejected (and is rejected for no other reason, and
\* stays so), the router is not called, no interception is installed and
\* initSnapshot stays unset
C11_LocationFailurePropagates ==
  /\ [](locationInitialized = "rejected"
          => /\ appInit \in {"notcalled", "awaitingLocation", "rejected"}
             /\ NoRouterAction
             /\ initSnapshot = Unset)
  /\ [](appInit = "rejected" => locationInitialized = "rejected")
  /\ [][appInit = "rejected" => appInit' = "rejected"]_vars

C11_Witness ==
  /\ appInit = "rejected"
  /\ \E n \in NavIds : navs[n].phase = "released"

\* C12: with initialNavigation other than false, once bootstrapListener has
\* run for the root component and the interception has been invoked, in
\* either order, the first intercepted navigation has been handed its
\* snapshot
C12_EarlyBootstrapStillReleases ==
  (opts.initialNavigation # "false" /\ firstIntercepted # 0 /\ rootNotified)
    => (FirstNav.phase = "released" /\ FirstNav.value = Snapshot(firstIntercepted))

\* C18: the initializer calls the router and installs the interception only
\* in a step taken with LOCATION_INITIALIZED resolved or not provided; while
\* it is pending nothing of the kind has happened
C18_NoRouterActionBeforeLocationReady ==
  /\ [](locationInitialized = "pending" => NoRouterAction)
  /\ [][(calls'.initialNavigation # calls.initialNavigation
           \/ calls'.setUpLocationChangeListener # calls.setUpLocationChangeListener
           \/ hook' # hook)
          => (locationInitialized \in {"absent", "resolved"}
              /\ locationInitialized' = locationInitialized)]_vars

C18_Witness ==
  /\ locationInitialized = "resolved"
  /\ calls.initialNavigation = 1
  /\ hook = "interception"

\* C20: with initialNavigation === false initSnapshot stays unset and no
\* navigation is ever subscribed to resultOfPreactivationDone: every
\* navigation that reached preactivation was handed its snapshot at once
C20_SkipHoldsNothing ==
  opts.initialNavigation = "false" =>
    /\ initSnapshot = Unset
    /\ firstIntercepted = 0
    /\ subject.observers = {}
    /\ \A n \in NavIds :
         navs[n].phase # "started"
           => /\ navs[n].phase = "released"
              /\ navs[n].ret = "default"
              /\ navs[n].value = Snapshot(n)

C20_Witness ==
  /\ opts.initialNavigation = "false"
  /\ rootNotified
  /\ initSnapshot = Unset
  /\ \E n \in NavIds : navs[n].phase = "released"

RECURSIVE Ancestors(_)
Ancestors(i) ==
  IF layers[i].parent = 0 THEN {}
  ELSE {layers[i].parent} \cup Ancestors(layers[i].parent)

\* C13: the guard of a forRoot layer fails exactly when a strict ancestor of
\* the layer provides a Router, and yields 'guarded' otherwise; a forChild
\* layer is always composed, also below a layer that provides the Router
C13_GuardFailsIffAncestorRouter ==
  \A i \in DOMAIN layers :
    /\ layers[i].kind = "forRoot"
         => /\ layers[i].guard = "error"
                  <=> (\E a \in Ancestors(i) : layers[a].providesRouter)
            /\ layers[i].guard \in {"error", "guarded"}
            /\ layers[i].composed <=> layers[i].guard = "guarded"
    /\ layers[i].kind = "forChild" => layers[i].composed

C13_Witness ==
  /\ layers # <<>>
  /\ layers[1].kind = "forRoot"
  /\ \E i \in DOMAIN layers : layers[i].guard = "error"
  /\ Cardinality({i \in DOMAIN layers : layers[i].kind = "forChild"
                                          /\ layers[i].composed /\ 1 \in Ancestors(i)}) >= 2

\* C14: at most one layer of the composed tree provides a Router
C14_AtMostOneRouter ==
  Cardinality({i \in DOMAIN layers : layers[i].composed /\ layers[i].providesRouter}) <= 1

\* C15: the strategy is the hash one exactly when options.useHash is true,
\* the path one when it is false or absent or the options are absent; it is
\* seeded with the platform location and the base href given, if any
C15_StrategyFollowsUseHash ==
  locationStrategy # Unset =>
    /\ locationStrategy.kind =
         IF options # Unset /\ options.useHash = "true"
         THEN "HashLocationStrategy" ELSE "PathLocationStrategy"
    /\ locationStrategy.platformLocation = "PlatformLocation"
    /\ locationStrategy.baseHref = baseHref

C15_Witness ==
  /\ locationStrategy # Unset
  /\ options # Unset
  /\ options.useHash = "false"
  /\ locationStrategy.kind = "PathLocationStrategy"
  /\ baseHref = Unset

\* the number of routes in the tables before table i
RECURSIVE Offset(_)
Offset(i) == IF i = 1 THEN 0 ELSE Offset(i - 1) + Len(routesToken[i - 1])

\* C16: the route table of the Router holds, for every contributed table in
\* registration order, its routes in their order, and nothing else
C16_ConfigIsConcatenation ==
  router # Unset =>
    /\ Len(router.config) = Offset(Len(routesToken) + 1)
    /\ \A i \in DOMAIN routesToken : \A j \in DOMAIN routesToken[i] :
         router.config[Offset(i) + j] = routesToken[i][j]

C16_Witness ==
  /\ router # Unset
  /\ Len(routesToken) = 3
  /\ routesToken[1] = <<"b", "c">>
  /\ routesToken[2] = <<>>
  /\ routesToken[3] = <<"a">>
  /\ router.config = <<"b", "c", "a">>

\* what the application's subscriber has been handed, in order
AppSeen ==
  LET mine == SelectSeq(deliveries, LAMBDA d : d.to = "app")
  IN  [i \in DOMAIN mine |-> mine[i].event]

Tracing == options # Unset /\ options.enableTracing = "true"

\* C17: with enableTracing true the console holds one group per emitted
\* event, in emission order; otherwise there is no tracing subscriber and no
\* output; either way another subscriber is handed exactly the events
\* emitted since it subscribed, in emission order
C17_TracingOnlyObserves ==
  /\ [](router # Unset =>
          /\ Tracing => Len(console) = Len(emitted)
          /\ Tracing => \A i \in DOMAIN emitted :
                          console[i] = TraceEvent(emitted[i])
          /\ ~Tracing => console = <<>>
          /\ ~Tracing => \A i \in DOMAIN router.subscribers :
                           router.subscribers[i] # "tracing"
          /\ Len(AppSeen) <= Len(emitted)
          /\ AppSeen = SubSeq(emitted, Len(emitted) - Len(AppSeen) + 1, Len(emitted)))
  /\ [][(emitted' # emitted /\ \E i \in DOMAIN router.subscribers :
                                  router.subscribers[i] = "app")
          => AppSeen' = Append(AppSeen, emitted'[Len(emitted')])]_provisionVars

C17_Witness ==
  /\ Tracing
  /\ Len(emitted) = 2
  /\ Len(console) = 2
  /\ Len(AppSeen) = 1

====
